---- MODULE Spec2Model ----
(***************************************************************************)
(* Model of the proposal generator: app/ppt.py (generate_presentation,     *)
(* replace_placeholders_in_text, get_slide_tags) and the two handlers of   *)
(* app/main.py (/render and /render/pdf).                                  *)
(*                                                                         *)
(* Text is a sequence of one-character strings.  Sequence positions are    *)
(* 1-based: position k of the model is Python index k-1.                   *)
(***************************************************************************)
EXTENDS Integers, Sequences, FiniteSets, TLC

VARIABLES
    caller,            \* who runs: "generate_presentation", "/render", "/render/pdf", "replace_placeholders_in_text"
    request,           \* the RenderRequest of a handler call
    template_exists,   \* os.path.exists(TEMPLATE_PATH)
    template,          \* the package at template_path: [valid, slides]
    replacements,      \* Dict[str, str] in insertion order: a sequence of <<key, value>>
    slide_toggles,     \* Dict[str, bool]
    pc,                \* position in the handler / in generate_presentation
    sldIdLst,          \* prs.slides._sldIdLst: the ordered rIds
    rels,              \* prs.part relationships: rId -> part
    parts,             \* the slide parts, by part key: their body and notes
    slides_to_remove,  \* the indices collected by the first pass
    i,                 \* the loop variable i (a slide position)
    todo,              \* what the running for-loop's iterator has yet to yield
    output,            \* the BytesIO returned by generate_presentation
    exc,               \* the exception in flight
    pdf_file,          \* the file LibreOffice left at pdf_path
    response,          \* what the handler answers
    text_frame,        \* the argument of a direct replace_placeholders_in_text call
    frame0             \* that argument as it was passed

vars == <<caller, request, template_exists, template, replacements,
          slide_toggles, pc, sldIdLst, rels, parts, slides_to_remove, i, todo,
          output, exc, pdf_file, response, text_frame,
          frame0>>

\* None, where the value is otherwise a string
None == "None"

-----------------------------------------------------------------------------
(* Bounds of the model. *)

MaxSlides == 3
MaxApiSlides == 2
MaxLen == 3

-----------------------------------------------------------------------------
(* str operations *)

\* s[pos:].startswith(pat), pos 1-based
IsPrefixAt(s, pat, pos) ==
    /\ pos + Len(pat) - 1 <= Len(s)
    /\ \A k \in 1..Len(pat) : s[pos + k - 1] = pat[k]

\* `key in run.text`
Contains(s, pat) ==
    \E pos \in 1..(Len(s) + 1) : IsPrefixAt(s, pat, pos)

RECURSIVE ReplaceFrom(_, _, _, _)
ReplaceFrom(s, old, new, pos) ==
    IF pos > Len(s) THEN <<>>
    ELSE IF IsPrefixAt(s, old, pos)
         THEN new \o ReplaceFrom(s, old, new, pos + Len(old))
         ELSE <<s[pos]>> \o ReplaceFrom(s, old, new, pos + 1)

RECURSIVE Interleave(_, _, _)
Interleave(s, new, pos) ==
    IF pos > Len(s) THEN new
    ELSE new \o <<s[pos]>> \o Interleave(s, new, pos + 1)

\* ReplaceFrom that stops after the first occurrence (str.replace(old, new, 1)).
RECURSIVE ReplaceFirstFrom(_, _, _, _)
ReplaceFirstFrom(s, old, new, pos) ==
    IF pos > Len(s) THEN <<>>
    ELSE IF IsPrefixAt(s, old, pos)
         THEN new \o SubSeq(s, pos + Len(old), Len(s))
         ELSE <<s[pos]>> \o ReplaceFirstFrom(s, old, new, pos + 1)

StrReplaceFirst(s, old, new) == ReplaceFirstFrom(s, old, new, 1)

\* str.replace(old, new): the non-overlapping occurrences, left to right;
\* an empty `old` matches before every character and at the end.
StrReplace(s, old, new) ==
    IF old = <<>> THEN Interleave(s, new, 1) ELSE ReplaceFrom(s, old, new, 1)

-----------------------------------------------------------------------------
(* get_slide_tags: re.findall(r"\[\[tag:([a-zA-Z0-9_]+)\]\]", notes_text) *)

TagOpen == <<"[", "[", "t", "a", "g", ":">>
TagClose == <<"]", "]">>

IdentChars ==
    {"a","b","c","d","e","f","g","h","i","j","k","l","m","n","o","p","q","r",
     "s","t","u","v","w","x","y","z",
     "A","B","C","D","E","F","G","H","I","J","K","L","M","N","O","P","Q","R",
     "S","T","U","V","W","X","Y","Z",
     "0","1","2","3","4","5","6","7","8","9","_"}

\* the length of the longest run of identifier characters starting at pos
RECURSIVE IdentRun(_, _)
IdentRun(s, pos) ==
    IF pos <= Len(s) /\ s[pos] \in IdentChars THEN 1 + IdentRun(s, pos + 1) ELSE 0

RECURSIVE FindAllFrom(_, _)
FindAllFrom(s, pos) ==
    IF pos > Len(s) THEN <<>>
    ELSE IF IsPrefixAt(s, TagOpen, pos)
         THEN LET start == pos + Len(TagOpen)
                  n == IdentRun(s, start)
                  stop == start + n
              IN  IF n >= 1 /\ IsPrefixAt(s, TagClose, stop)
                  THEN <<SubSeq(s, start, stop - 1)>>
                           \o FindAllFrom(s, stop + Len(TagClose))
                  ELSE FindAllFrom(s, pos + 1)
         ELSE FindAllFrom(s, pos + 1)

get_slide_tags(notes_text) == FindAllFrom(notes_text, 1)

-----------------------------------------------------------------------------
(* dict and text-frame operations *)

\* DictGet with the default argument ignored: a missing key reads as False
DictGetNoDefault(d, key, default) == IF key \in DOMAIN d THEN d[key] ELSE FALSE

\* slide_toggles.get(tag, default)
DictGet(d, key, default) == IF key \in DOMAIN d THEN d[key] ELSE default

RECURSIVE Concat(_)
Concat(ss) == IF ss = <<>> THEN <<>> ELSE Head(ss) \o Concat(Tail(ss))

RECURSIVE JoinLines(_)
JoinLines(ss) ==
    IF ss = <<>> THEN <<>>
    ELSE IF Len(ss) = 1 THEN Head(ss)
    ELSE Head(ss) \o <<"\n">> \o JoinLines(Tail(ss))

\* TextFrame.text: the paragraphs' texts joined by a line feed; a paragraph's
\* text is the concatenation of its runs.
FrameText(tf) == JoinLines([p \in DOMAIN tf |-> Concat(tf[p])])

\* ReplaceRunFrom with the pairs visited last to first
RECURSIVE ReplaceRunBackwards(_, _, _)
ReplaceRunBackwards(text, repl, k) ==
    IF k > Len(repl) THEN text
    ELSE LET key == repl[Len(repl) + 1 - k][1]
             value == repl[Len(repl) + 1 - k][2]
         IN  ReplaceRunBackwards(IF Contains(text, key)
                                 THEN StrReplace(text, key, value)
                                 ELSE text,
                                 repl, k + 1)

\* lines 27-29: the pairs in insertion order, each applied to the run's
\* current text
RECURSIVE ReplaceRunFrom(_, _, _)
ReplaceRunFrom(text, repl, k) ==
    IF k > Len(repl) THEN text
    ELSE LET key == repl[k][1]
             value == repl[k][2]
         IN  ReplaceRunFrom(IF Contains(text, key)
                            THEN StrReplace(text, key, value)
                            ELSE text,
                            repl, k + 1)

\* lines 26-29: what one run holds after the loop over replacements.items()
ReplaceRun(text, repl) ==
    IF text # <<>> THEN ReplaceRunFrom(text, repl, 1) ELSE text

\* replace_placeholders_in_text done on paragraph.text: the runs of a
\* paragraph become one
ReplaceInParagraphText(tf, repl) ==
    [p \in DOMAIN tf |->
        IF tf[p] = <<>> THEN <<>> ELSE <<ReplaceRunFrom(Concat(tf[p]), repl, 1)>>]

\* lines 24-29
replace_placeholders_in_text(tf, repl) ==
    [p \in DOMAIN tf |-> [r \in DOMAIN tf[p] |-> ReplaceRun(tf[p][r], repl)]]

\* ScanTags that asks for every tag to be disabled (all for any)
ScanTagsAll(tags, toggles, k) ==
    /\ tags # <<>>
    /\ \A n \in k..Len(tags) : tags[n] \in DOMAIN toggles /\ ~toggles[tags[n]]

\* lines 73-79: the loop over the tags, left at the first disabled one
RECURSIVE ScanTags(_, _, _)
ScanTags(tags, toggles, k) ==
    IF k > Len(tags) THEN FALSE
    ELSE IF ~DictGet(toggles, tags[k], TRUE) THEN TRUE
    ELSE ScanTags(tags, toggles, k + 1)

\* lines 67-69
NotesOf(slide) ==
    IF slide.has_notes_slide /\ slide.has_notes_text_frame
    THEN FrameText(slide.notes_text_frame)
    ELSE <<>>

\* lines 67-79: should_remove for one slide
ShouldRemove(slide, toggles) == ScanTags(get_slide_tags(NotesOf(slide)), toggles, 1)

\* SubstituteSlide without the notes (lines 99-100 left out)
SubstituteBodyOnly(slide, repl) ==
    [slide EXCEPT
        !.shapes = [s \in DOMAIN slide.shapes |->
                      IF slide.shapes[s].has_text_frame
                      THEN [slide.shapes[s] EXCEPT
                              !.text_frame = replace_placeholders_in_text(@, repl)]
                      ELSE slide.shapes[s]]]

\* lines 93-100: one surviving slide after the substitution in body and notes
SubstituteSlide(slide, repl) ==
    [slide EXCEPT
        !.shapes = [s \in DOMAIN slide.shapes |->
                      IF slide.shapes[s].has_text_frame
                      THEN [slide.shapes[s] EXCEPT
                              !.text_frame = replace_placeholders_in_text(@, repl)]
                      ELSE slide.shapes[s]],
        !.notes_text_frame =
            IF slide.has_notes_slide /\ slide.has_notes_text_frame
            THEN replace_placeholders_in_text(@, repl)
            ELSE @]

\* Reversed that keeps the list in ascending order
ForwardOrder(s) == s

\* reversed(slides_to_remove)
RECURSIVE Reversed(_)
Reversed(s) == IF s = <<>> THEN <<>> ELSE Reversed(Tail(s)) \o <<Head(s)>>

\* DelAt one position too far (a 0-based index used as a 1-based one)
DelAtNext(s, pos) == SubSeq(s, 1, pos) \o SubSeq(s, pos + 2, Len(s))

\* del lst[pos]
DelAt(s, pos) == SubSeq(s, 1, pos - 1) \o SubSeq(s, pos + 1, Len(s))

\* DropRel with the reference count compared to 1 instead of 2
DropRelUnreferenced(rs, lst, rId) ==
    IF Cardinality({k \in DOMAIN lst : lst[k] = rId}) < 1
    THEN [r \in DOMAIN rs \ {rId} |-> rs[r]]
    ELSE rs

\* part.drop_rel(rId): the relationship goes unless the part's XML refers to
\* it more than once
DropRel(rs, lst, rId) ==
    IF Cardinality({k \in DOMAIN lst : lst[k] = rId}) < 2
    THEN [r \in DOMAIN rs \ {rId} |-> rs[r]]
    ELSE rs

RId(k) == <<"rId", k>>

MasterRId == <<"rId", 0>>

\* the slide of position k of the slide list (prs.slides[k])
SlideAt(lst, rs, ps, k) == ps[rs[lst[k]].key]

\* prs.save: the package as written, its slides in slide-list order
Serialize(lst, rs, ps) == [k \in DOMAIN lst |-> SlideAt(lst, rs, ps, k)]

-----------------------------------------------------------------------------
(* The templates, maps and requests the model runs on. *)

TokA == <<"{", "A", "}">>
TokB == <<"{", "B", "}">>

TagA == TagOpen \o <<"a">> \o TagClose
TagB == TagOpen \o <<"b">> \o TagClose

TagNames == {<<"a">>, <<"b">>}

NoTextFrame == [has_text_frame |-> FALSE, text_frame |-> <<>>]
Shape(tf) == [has_text_frame |-> TRUE, text_frame |-> tf]

\* has_notes_text_frame: notes_slide.notes_text_frame is not None
SlideNoNotes(shapes) ==
    [shapes |-> shapes, has_notes_slide |-> FALSE,
     has_notes_text_frame |-> FALSE, notes_text_frame |-> <<>>]
SlideNotes(shapes, notes) ==
    [shapes |-> shapes, has_notes_slide |-> TRUE,
     has_notes_text_frame |-> TRUE, notes_text_frame |-> notes]
SlideNotesNoFrame(shapes) ==
    [shapes |-> shapes, has_notes_slide |-> TRUE,
     has_notes_text_frame |-> FALSE, notes_text_frame |-> <<>>]

SlidePool ==
    { \* "{A}{B}" in one run; no notes slide
      SlideNoNotes(<<Shape(<< <<TokA \o TokB>> >>)>>),
      \* a picture, then "{A" + "}" in two runs and "x{A}x{A}"; notes [[tag:a]]
      SlideNotes(<<NoTextFrame,
                   Shape(<< << <<"{", "A">>, <<"}">> >>,
                            << <<"x">> \o TokA \o <<"x">> \o TokA >> >>)>>,
                 << <<TagA>> >>),
      \* "{{A}A}" and an empty run; notes "[[tag:" + "b]]" in two runs, then "{A}"
      SlideNotes(<<Shape(<< << <<"{">> \o TokA \o <<"A", "}">>, <<>> >> >>)>>,
                 << <<TagOpen, <<"b">> \o TagClose>>, <<TokA>> >>),
      \* no shapes; notes "[[tag:a]] [[tag:b]]"
      SlideNotes(<<>>, << <<TagA \o <<" ">> \o TagB>> >>),
      \* "x"; notes "[[tag:]]" and "[[tag:a b]]": no tag
      SlideNotes(<<Shape(<< <<<<"x">>>> >>)>>,
                 << <<TagOpen \o TagClose>>,
                    <<TagOpen \o <<"a", " ", "b">> \o TagClose>> >>) }

\* the handlers' templates also hold "{A}" on a slide whose notes slide has
\* no notes placeholder
ApiSlidePool == SlidePool \cup {SlideNotesNoFrame(<<Shape(<< <<TokA>> >>)>>)}

SeqsUpTo(S, n) == UNION {[1..m -> S] : m \in 0..n}

Templates(pool, n) ==
    {[valid |-> TRUE, slides |-> ss] : ss \in SeqsUpTo(pool, n)}
        \cup {[valid |-> FALSE, slides |-> <<>>]}

ToggleMaps == UNION {[D -> BOOLEAN] : D \in SUBSET TagNames}

MapPool ==
    { <<>>,
      << <<TokB, <<"X">>>>, <<TokA, TokB>> >>,
      << <<TokA, <<>>>> >>,
      << <<TokA, <<"A", "c", "m", "e">>>>, <<TokB, <<"9", "%">>>> >> }

ValuePool == {<<"A", "c", "m", "e">>, TokB}

Requests ==
    [company_name : ValuePool, contact_name : ValuePool,
     slide_toggles : ToggleMaps]

NoRequest ==
    [company_name |-> <<>>, contact_name |-> <<>>, slide_toggles |-> <<>>]

\* lines 90-103 and 158-169: the handler's dict, its keys in the order written
\* (two of the ten placeholders)
HandlerReplacements(req) ==
    << <<TokA, req.company_name>>, <<TokB, req.contact_name>> >>

NoBytes == [kind |-> "none", slides |-> <<>>]
NoResponse == [status |-> 0, prefix |-> None, error |-> None, body |-> NoBytes]

Positions(lst) == [k \in 1..Len(lst) |-> k]

-----------------------------------------------------------------------------
(* Initial states *)

Fresh ==
    /\ sldIdLst = <<>>
    /\ rels = <<>>
    /\ parts = <<>>
    /\ slides_to_remove = <<>>
    /\ i = 0
    /\ todo = <<>>
    /\ output = NoBytes
    /\ exc = None
    /\ pdf_file = NoBytes
    /\ response = NoResponse

\* generate_presentation called directly
Init ==
    /\ caller = "generate_presentation"
    /\ request = NoRequest
    /\ template_exists = TRUE
    /\ template \in Templates(SlidePool, MaxSlides)
    /\ replacements \in MapPool
    /\ slide_toggles \in ToggleMaps
    /\ pc = "call"
    /\ text_frame = <<>>
    /\ frame0 = <<>>
    /\ Fresh

\* a POST to /render or to /render/pdf
InitApi ==
    /\ caller \in {"/render", "/render/pdf"}
    /\ request \in Requests
    /\ template_exists \in BOOLEAN
    /\ template \in Templates(ApiSlidePool, MaxApiSlides)
    /\ template_exists = FALSE => template.valid = FALSE
    /\ replacements = <<>>
    /\ slide_toggles = <<>>
    /\ pc = "handler"
    /\ text_frame = <<>>
    /\ frame0 = <<>>
    /\ Fresh

-----------------------------------------------------------------------------
(* generate_presentation *)

Raise(e) ==
    /\ exc' = e
    /\ pc' = "raised"

\* lines 60-61: Presentation(template_path)
Load ==
    /\ pc = "call"
    /\ IF template.valid
       THEN /\ sldIdLst' = [k \in 1..Len(template.slides) |-> RId(k)]
            /\ rels' = [r \in {MasterRId} \cup {RId(k) : k \in 1..Len(template.slides)} |->
                          IF r = MasterRId
                          THEN [type |-> "slideMaster", key |-> 0]
                          ELSE [type |-> "slide", key |-> r[2]]]
            /\ parts' = template.slides
            /\ slides_to_remove' = <<>>
            /\ todo' = Positions(template.slides)
            /\ pc' = "select"
            /\ exc' = exc
       ELSE /\ Raise("PackageNotFoundError")
            /\ UNCHANGED <<sldIdLst, rels, parts, slides_to_remove, todo>>
    /\ UNCHANGED <<caller, request, template_exists, template, replacements,
                   slide_toggles, i, output, pdf_file, response, text_frame, frame0>>

\* lines 64-82: one iteration of the first pass
SelectSlide ==
    /\ pc = "select"
    /\ todo # <<>>
    /\ i' = Head(todo)
    /\ todo' = Tail(todo)
    /\ slides_to_remove' =
           IF ShouldRemove(SlideAt(sldIdLst, rels, parts, i'), slide_toggles)
           THEN Append(slides_to_remove, i')
           ELSE slides_to_remove
    /\ UNCHANGED <<caller, request, template_exists, template, replacements,
                   slide_toggles, pc, sldIdLst, rels, parts, output, exc,
                   pdf_file, response, text_frame, frame0>>

\* line 85: the first pass is over, reversed(slides_to_remove) is built
SelectDone ==
    /\ pc = "select"
    /\ todo = <<>>
    /\ todo' = Reversed(slides_to_remove)
    /\ pc' = "remove"
    /\ UNCHANGED <<caller, request, template_exists, template, replacements,
                   slide_toggles, sldIdLst, rels, parts, slides_to_remove, i,
                   output, exc, pdf_file, response, text_frame, frame0>>

\* lines 85-87: the next index, its rId, drop_rel
RemoveDropRel ==
    /\ pc = "remove"
    /\ todo # <<>>
    /\ i' = Head(todo)
    /\ todo' = Tail(todo)
    /\ IF i' > Len(sldIdLst)
       THEN Raise("IndexError") /\ rels' = rels
       ELSE IF sldIdLst[i'] \notin DOMAIN rels
       THEN Raise("KeyError") /\ rels' = rels
       ELSE /\ rels' = DropRel(rels, sldIdLst, sldIdLst[i'])
            /\ pc' = "del"
            /\ exc' = exc
    /\ UNCHANGED <<caller, request, template_exists, template, replacements,
                   slide_toggles, sldIdLst, parts, slides_to_remove, output,
                   pdf_file, response, text_frame, frame0>>

\* line 88: del prs.slides._sldIdLst[i]
RemoveDel ==
    /\ pc = "del"
    /\ sldIdLst' = DelAt(sldIdLst, i)
    /\ pc' = "remove"
    /\ UNCHANGED <<caller, request, template_exists, template, replacements,
                   slide_toggles, rels, parts, slides_to_remove, i, todo,
                   output, exc, pdf_file, response, text_frame, frame0>>

\* line 91: the removal pass is over, the pass over prs.slides starts
RemoveDone ==
    /\ pc = "remove"
    /\ todo = <<>>
    /\ todo' = Positions(sldIdLst)
    /\ pc' = "subst"
    /\ UNCHANGED <<caller, request, template_exists, template, replacements,
                   slide_toggles, sldIdLst, rels, parts, slides_to_remove, i,
                   output, exc, pdf_file, response, text_frame, frame0>>

\* lines 91-100: one remaining slide, its shapes and its notes
SubstSlide ==
    /\ pc = "subst"
    /\ todo # <<>>
    /\ todo' = Tail(todo)
    /\ IF sldIdLst[Head(todo)] \notin DOMAIN rels
       THEN Raise("KeyError") /\ parts' = parts
       ELSE /\ parts' = [parts EXCEPT ![rels[sldIdLst[Head(todo)]].key] =
                             SubstituteSlide(@, replacements)]
            /\ UNCHANGED <<pc, exc>>
    /\ UNCHANGED <<caller, request, template_exists, template, replacements,
                   slide_toggles, sldIdLst, rels, slides_to_remove, i, output,
                   pdf_file, response, text_frame, frame0>>

\* lines 103-106: prs.save(output); return output
Save ==
    /\ pc = "subst"
    /\ todo = <<>>
    /\ IF \E k \in DOMAIN sldIdLst : sldIdLst[k] \notin DOMAIN rels
       THEN Raise("KeyError") /\ output' = output
       ELSE /\ output' = [kind |-> "bytes", slides |-> Serialize(sldIdLst, rels, parts)]
            /\ pc' = "returned"
            /\ exc' = exc
    /\ UNCHANGED <<caller, request, template_exists, template, replacements,
                   slide_toggles, sldIdLst, rels, parts, slides_to_remove, i,
                   todo, pdf_file, response, text_frame, frame0>>

NextGen ==
    \/ Load
    \/ SelectSlide
    \/ SelectDone
    \/ RemoveDropRel
    \/ RemoveDel
    \/ RemoveDone
    \/ SubstSlide
    \/ Save

Spec == Init /\ [][NextGen]_vars

-----------------------------------------------------------------------------
(* The handlers of main.py.  Both run generate_presentation (NextGen)      *)
(* between their first lines and their last.                               *)

\* line 219: the label of the catch-all handler of /render/pdf
GeneralErrorPrefix == "Error general: "

Respond(r) ==
    /\ response' = r
    /\ pc' = "responded"

\* lines 84-103 (/render) and 153-169 (/render/pdf)
HandlerStart ==
    /\ pc = "handler"
    /\ IF ~template_exists
       THEN /\ Respond([status |-> 500, prefix |-> "Plantilla PPTX no encontrada",
                        error |-> None, body |-> NoBytes])
            /\ UNCHANGED <<replacements, slide_toggles>>
       ELSE /\ replacements' = HandlerReplacements(request)
            /\ slide_toggles' = request.slide_toggles
            /\ pc' = "call"
            /\ response' = response
    /\ UNCHANGED <<caller, request, template_exists, template, sldIdLst, rels,
                   parts, slides_to_remove, i, todo, output, exc, pdf_file,
                   text_frame, frame0>>

\* lines 116-125: the StreamingResponse of /render
RenderRespond ==
    /\ caller = "/render"
    /\ pc = "returned"
    /\ Respond([status |-> 200, prefix |-> None, error |-> None, body |-> output])
    /\ UNCHANGED <<caller, request, template_exists, template, replacements,
                   slide_toggles, sldIdLst, rels, parts, slides_to_remove, i,
                   todo, output, exc, pdf_file, text_frame, frame0>>

\* lines 112-114: except Exception of /render
RenderExcept ==
    /\ caller = "/render"
    /\ pc = "raised"
    /\ Respond([status |-> 500, prefix |-> "Error al generar PPTX: ",
                error |-> exc, body |-> NoBytes])
    /\ UNCHANGED <<caller, request, template_exists, template, replacements,
                   slide_toggles, sldIdLst, rels, parts, slides_to_remove, i,
                   todo, output, exc, pdf_file, text_frame, frame0>>

\* lines 180-195: the temporary .pptx, then subprocess.run(..., check=True).
\* LibreOffice exits with rc and has or has not written the PDF.
PdfConvert ==
    /\ caller = "/render/pdf"
    /\ pc = "returned"
    /\ \E rc \in {0, 1}, written \in BOOLEAN :
          /\ pdf_file' = IF written
                         THEN [kind |-> "pdf", slides |-> output.slides]
                         ELSE NoBytes
          /\ IF rc # 0
             THEN Raise("CalledProcessError")
             ELSE pc' = "read_pdf" /\ exc' = exc
    /\ UNCHANGED <<caller, request, template_exists, template, replacements,
                   slide_toggles, sldIdLst, rels, parts, slides_to_remove, i,
                   todo, output, response, text_frame, frame0>>

\* lines 198-214: open(pdf_path, "rb"), then the StreamingResponse
PdfRead ==
    /\ caller = "/render/pdf"
    /\ pc = "read_pdf"
    /\ IF pdf_file.kind = "none"
       THEN Raise("FileNotFoundError") /\ response' = response
       ELSE /\ Respond([status |-> 200, prefix |-> None, error |-> None,
                        body |-> pdf_file])
            /\ exc' = exc
    /\ UNCHANGED <<caller, request, template_exists, template, replacements,
                   slide_toggles, sldIdLst, rels, parts, slides_to_remove, i,
                   todo, output, pdf_file, text_frame, frame0>>

\* lines 216-217: except subprocess.CalledProcessError
PdfExceptCalledProcess ==
    /\ caller = "/render/pdf"
    /\ pc = "raised"
    /\ exc = "CalledProcessError"
    \* the label is "Error en conversión LibreOffice: " in the source
    /\ Respond([status |-> 500, prefix |-> "Error en conversion LibreOffice: ",
                error |-> exc, body |-> NoBytes])
    /\ UNCHANGED <<caller, request, template_exists, template, replacements,
                   slide_toggles, sldIdLst, rels, parts, slides_to_remove, i,
                   todo, output, exc, pdf_file, text_frame, frame0>>

\* lines 218-219: except Exception
PdfExceptGeneral ==
    /\ caller = "/render/pdf"
    /\ pc = "raised"
    /\ exc # "CalledProcessError"
    /\ Respond([status |-> 500, prefix |-> GeneralErrorPrefix,
                error |-> exc, body |-> NoBytes])
    /\ UNCHANGED <<caller, request, template_exists, template, replacements,
                   slide_toggles, sldIdLst, rels, parts, slides_to_remove, i,
                   todo, output, exc, pdf_file, text_frame, frame0>>

NextApi ==
    \/ HandlerStart
    \/ NextGen
    \/ RenderRespond
    \/ RenderExcept
    \/ PdfConvert
    \/ PdfRead
    \/ PdfExceptCalledProcess
    \/ PdfExceptGeneral

SpecApi == InitApi /\ [][NextApi]_vars

-----------------------------------------------------------------------------
(* replace_placeholders_in_text called on one text frame *)

SubstAlphabet == {"{", "A", "}", "B"}

RunPool ==
    { <<>>, <<"x">>, TokA, TokA \o TokB, <<"{", "A">>, <<"}">>,
      <<"x">> \o TokA \o <<"x">> \o TokA, <<"{">> \o TokA \o <<"A", "}">> }

SubstFrames ==
    {<< <<s>> >> : s \in SeqsUpTo(SubstAlphabet, MaxLen)}
        \cup {<< <<r1, r2>> >> : r1 \in RunPool, r2 \in RunPool}
        \cup {<< <<r1>>, <<r2>> >> : r1 \in RunPool, r2 \in RunPool}
        \cup {<< <<>>, <<r>> >> : r \in RunPool}
        \cup {<<>>}

SubstValues == {<<>>, <<"X">>, <<"A">>, TokA, TokB}

\* the dicts of at most two of the tokens, in either order
SubstMaps ==
    {<<>>}
        \cup {<< <<k, v>> >> : k \in {TokA, TokB}, v \in SubstValues}
        \cup {<< <<k[1], v1>>, <<k[2], v2>> >> :
                  k \in {<<TokA, TokB>>, <<TokB, TokA>>},
                  v1 \in SubstValues, v2 \in SubstValues}

InitSubst ==
    /\ caller = "replace_placeholders_in_text"
    /\ request = NoRequest
    /\ template_exists = TRUE
    /\ template = [valid |-> TRUE, slides |-> <<>>]
    /\ replacements \in SubstMaps
    /\ slide_toggles = <<>>
    /\ pc = "call_replace"
    /\ text_frame \in SubstFrames
    /\ frame0 = text_frame
    /\ Fresh

\* lines 24-29 on the frame passed
CallReplace ==
    /\ pc = "call_replace"
    /\ text_frame' = replace_placeholders_in_text(text_frame, replacements)
    /\ pc' = "replaced"
    /\ UNCHANGED <<caller, request, template_exists, template, replacements,
                   slide_toggles, sldIdLst, rels, parts, slides_to_remove, i,
                   todo, output, exc, pdf_file, response, frame0>>

NextSubst == CallReplace

SpecSubst == InitSubst /\ [][NextSubst]_vars

-----------------------------------------------------------------------------
(* Properties *)

Range(f) == {f[x] : x \in DOMAIN f}

\* the slide of the template has a tag that the toggles map to false
HasDisabledTag(slide, toggles) ==
    \E tag \in Range(get_slide_tags(NotesOf(slide))) :
        tag \in DOMAIN toggles /\ toggles[tag] = FALSE

\* the template positions the first pass has visited
Visited ==
    IF pc = "select" THEN 1..(Len(template.slides) - Len(todo))
    ELSE IF pc \in {"remove", "del", "subst", "returned"} THEN DOMAIN template.slides
    ELSE {}

\* C1: a slide is marked for removal if and only if one of the tags of its
\* own notes maps to false in the toggles; absent tags, true tags, no tags and
\* no notes keep the slide.
C1_MarkedIffDisabledTag ==
    caller = "generate_presentation" =>
        \A k \in Visited :
            /\ (k \in Range(slides_to_remove))
                   <=> HasDisabledTag(template.slides[k], slide_toggles)
            /\ get_slide_tags(NotesOf(template.slides[k])) = <<>>
                   => k \notin Range(slides_to_remove)
            /\ (\A tag \in Range(get_slide_tags(NotesOf(template.slides[k]))) :
                    tag \notin DOMAIN slide_toggles \/ slide_toggles[tag])
                   => k \notin Range(slides_to_remove)

\* a slide with one tag absent from the toggles and one disabled is marked,
\* next to a tagged slide that is kept because its tags are all absent
C1_Witness ==
    /\ pc = "remove"
    /\ \E k \in Range(slides_to_remove) :
          \E t1, t2 \in Range(get_slide_tags(NotesOf(template.slides[k]))) :
              /\ t1 \notin DOMAIN slide_toggles
              /\ t2 \in DOMAIN slide_toggles /\ ~slide_toggles[t2]
    /\ \E k \in DOMAIN template.slides \ Range(slides_to_remove) :
          /\ get_slide_tags(NotesOf(template.slides[k])) # <<>>
          /\ \A t \in Range(get_slide_tags(NotesOf(template.slides[k]))) :
                 t \notin DOMAIN slide_toggles

\* the rIds of the template's slide list, without those of the positions in gone
Without(n, gone) ==
    LET Kept(r) == r[2] \notin gone
    IN  SelectSeq([k \in 1..n |-> RId(k)], Kept)

\* C2: after the removal pass the slide list is the original one with the
\* marked entries deleted, in the original order, and its length is the
\* original length minus the number of marked indices.
C2_RemovalKeepsOrderAndCount ==
    pc \in {"subst", "returned"} =>
        /\ sldIdLst = Without(Len(template.slides), Range(slides_to_remove))
        /\ Len(sldIdLst) = Len(template.slides) - Len(slides_to_remove)
        /\ \A a, b \in DOMAIN sldIdLst : a < b => sldIdLst[a][2] < sldIdLst[b][2]
        /\ pc = "returned" => Len(output.slides) = Len(sldIdLst)

\* the first and the last of three slides were removed
C2_Witness ==
    /\ pc = "subst"
    /\ Len(template.slides) = 3
    /\ slides_to_remove = <<1, 3>>
    /\ sldIdLst = <<RId(2)>>

\* C3: after the removal pass every slide-list entry resolves to a slide
\* relationship, no removed slide keeps its relationship or a slide-list
\* entry, and a slide-list entry never goes before its relationship has.
C3_NoDanglingReference ==
    /\ pc \in {"subst", "returned"} =>
          /\ \A k \in DOMAIN sldIdLst :
                 sldIdLst[k] \in DOMAIN rels /\ rels[sldIdLst[k]].type = "slide"
          /\ \A a, b \in DOMAIN sldIdLst : a # b => sldIdLst[a] # sldIdLst[b]
          /\ \A k \in Range(slides_to_remove) :
                 RId(k) \notin DOMAIN rels /\ RId(k) \notin Range(sldIdLst)
          /\ MasterRId \in DOMAIN rels
    /\ pc = "del" => sldIdLst[i] \notin DOMAIN rels
    /\ pc \in {"select", "remove", "del", "subst", "returned"} =>
          \A k \in DOMAIN template.slides :
              RId(k) \notin Range(sldIdLst) => RId(k) \notin DOMAIN rels

\* the package was serialized after a removal that left slides behind
C3_Witness ==
    /\ pc = "returned"
    /\ slides_to_remove # <<>>
    /\ sldIdLst # <<>>
    /\ Cardinality(DOMAIN rels) = 1 + Len(sldIdLst)

\* the ascending list of the template positions with a disabled tag
RECURSIVE MarkedFrom(_, _, _)
MarkedFrom(slides, toggles, k) ==
    IF k > Len(slides) THEN <<>>
    ELSE (IF HasDisabledTag(slides[k], toggles) THEN <<k>> ELSE <<>>)
             \o MarkedFrom(slides, toggles, k + 1)

\* C10: the indices are those of the original order, ascending and each
\* once, and stay as collected; they are processed from the highest down, so
\* each index is within the current list and names the slide that held it in
\* the original order.
C10_IndicesValidHighestFirst ==
    /\ pc \in {"remove", "del", "subst", "returned"} =>
          /\ slides_to_remove = MarkedFrom(template.slides, slide_toggles, 1)
          /\ \A a, b \in DOMAIN slides_to_remove :
                 a < b => slides_to_remove[a] < slides_to_remove[b]
    /\ pc = "remove" =>
          /\ todo = Reversed(SubSeq(slides_to_remove, 1, Len(todo)))
          /\ \A t \in Range(todo) : t <= Len(sldIdLst) /\ sldIdLst[t] = RId(t)
    /\ pc = "del" =>
          /\ slides_to_remove[Len(todo) + 1] = i
          /\ \A t \in Range(todo) : t < i
          /\ i <= Len(sldIdLst)
          /\ sldIdLst[i] = RId(i)
    /\ exc \notin {"IndexError", "KeyError"}

\* the lowest of three indices is about to be deleted, after the higher two
C10_Witness ==
    /\ pc = "del"
    /\ Len(slides_to_remove) = 3
    /\ i = slides_to_remove[1]
    /\ todo = <<>>

\* C7: with an empty ReplacementMap and an empty ToggleMap no slide is
\* removed and no run changes: the output is the template's slides.
C7_EmptyMapsChangeNothing ==
    (replacements = <<>> /\ DOMAIN slide_toggles = {} /\ pc # "call" /\ pc # "raised") =>
        /\ slides_to_remove = <<>>
        /\ parts = template.slides
        /\ sldIdLst = [k \in 1..Len(template.slides) |-> RId(k)]
        /\ pc = "returned" => output.slides = template.slides

\* a template with tags and tokens went through with both maps empty
C7_Witness ==
    /\ pc = "returned"
    /\ replacements = <<>>
    /\ DOMAIN slide_toggles = {}
    /\ \E k \in DOMAIN template.slides :
          get_slide_tags(NotesOf(template.slides[k])) # <<>>
    /\ \E k \in DOMAIN output.slides : \E s \in DOMAIN output.slides[k].shapes :
          /\ output.slides[k].shapes[s].has_text_frame
          /\ Contains(FrameText(output.slides[k].shapes[s].text_frame), TokA)

\* the pairs of the map in insertion order, each replacing all occurrences of
\* its token in the string the pairs before it left
RECURSIVE InsertionOrderFold(_, _)
InsertionOrderFold(text, repl) ==
    IF repl = <<>> THEN text
    ELSE InsertionOrderFold(StrReplace(text, Head(repl)[1], Head(repl)[2]), Tail(repl))

SameShape(f, g) ==
    /\ DOMAIN f = DOMAIN g
    /\ \A p \in DOMAIN f : DOMAIN f[p] = DOMAIN g[p]

\* C4: every run holds the insertion-order fold of its own string; a run
\* "{A}{B}" under {A} -> {B}, {B} -> X reads "XX".
C4_InsertionOrderFold ==
    pc = "replaced" =>
        /\ SameShape(frame0, text_frame)
        /\ \A p \in DOMAIN frame0 : \A r \in DOMAIN frame0[p] :
               /\ text_frame[p][r] = InsertionOrderFold(frame0[p][r], replacements)
               /\ (frame0[p][r] = TokA \o TokB
                     /\ replacements = << <<TokA, TokB>>, <<TokB, <<"X">>>> >>)
                      => text_frame[p][r] = <<"X", "X">>

\* the run "{A}{B}" after {A} -> {B}, {B} -> X
C4_Witness ==
    /\ pc = "replaced"
    /\ replacements = << <<TokA, TokB>>, <<TokB, <<"X">>>> >>
    /\ \E p \in DOMAIN frame0 : \E r \in DOMAIN frame0[p] :
          frame0[p][r] = TokA \o TokB /\ text_frame[p][r] = <<"X", "X">>

\* run a ends with the first j characters of key and run b starts with the rest
SplitAt(a, b, key, j) ==
    /\ j <= Len(a)
    /\ SubSeq(a, Len(a) - j + 1, Len(a)) = SubSeq(key, 1, j)
    /\ IsPrefixAt(b, SubSeq(key, j + 1, Len(key)), 1)

Keys(repl) == {repl[k][1] : k \in DOMAIN repl}

\* C5: the paragraphs and runs stay as they are in number and order; a token
\* split across two adjacent runs is still there, split the same way; a run
\* that holds no token of the map keeps its string.
C5_RunLocal ==
    pc = "replaced" =>
        /\ SameShape(frame0, text_frame)
        /\ \A p \in DOMAIN frame0 : \A r \in DOMAIN frame0[p] :
               /\ (\A key \in Keys(replacements) : ~Contains(frame0[p][r], key))
                      => text_frame[p][r] = frame0[p][r]
               /\ r + 1 \in DOMAIN frame0[p] =>
                      \A key \in Keys(replacements) : \A j \in 1..(Len(key) - 1) :
                          SplitAt(frame0[p][r], frame0[p][r + 1], key, j)
                              => SplitAt(text_frame[p][r], text_frame[p][r + 1], key, j)

\* "{A" and "}" in adjacent runs of one paragraph, {A} in the map
C5_Witness ==
    /\ pc = "replaced"
    /\ TokA \in Keys(replacements)
    /\ \E p \in DOMAIN frame0 :
          /\ Len(frame0[p]) = 2
          /\ frame0[p] = << <<"{", "A">>, <<"}">> >>
          /\ text_frame[p] = frame0[p]

BraceFree(v) == \A k \in DOMAIN v : v[k] \notin {"{", "}"}

\* a placeholder token: "{", a name without braces, "}"
IsToken(key) ==
    /\ Len(key) >= 2
    /\ key[1] = "{" /\ key[Len(key)] = "}"
    /\ BraceFree(SubSeq(key, 2, Len(key) - 1))

\* the braces of s pair up without nesting: "{", then "}", then "{", ...
RECURSIVE FlatFrom(_, _, _)
FlatFrom(s, pos, open) ==
    IF pos > Len(s) THEN ~open
    ELSE IF s[pos] = "{" THEN ~open /\ FlatFrom(s, pos + 1, TRUE)
    ELSE IF s[pos] = "}" THEN open /\ FlatFrom(s, pos + 1, FALSE)
    ELSE FlatFrom(s, pos + 1, open)

Flat(s) == FlatFrom(s, 1, FALSE)

\* P(before, after) of every run of the body and of the notes of a slide,
\* given as it was in the template (o) and as it is in the output (f)
AllRuns(o, f, P(_, _)) ==
    /\ \A s \in DOMAIN f.shapes :
          f.shapes[s].has_text_frame =>
              \A p \in DOMAIN f.shapes[s].text_frame :
                  \A r \in DOMAIN f.shapes[s].text_frame[p] :
                      P(o.shapes[s].text_frame[p][r], f.shapes[s].text_frame[p][r])
    /\ (f.has_notes_slide /\ f.has_notes_text_frame) =>
          \A p \in DOMAIN f.notes_text_frame :
              \A r \in DOMAIN f.notes_text_frame[p] :
                  P(o.notes_text_frame[p][r], f.notes_text_frame[p][r])

\* the template slide that position k of the output comes from
Origin(k) == template.slides[rels[sldIdLst[k]].key]

\* C6 as claimed: no run of a surviving slide contains a token of the map.
C6_NoTokenSurvives ==
    pc = "returned" =>
        \A k \in DOMAIN output.slides :
            LET TokenFree(t0, t1) ==
                    \A key \in Keys(replacements) : ~Contains(t1, key)
            IN  AllRuns(Origin(k), output.slides[k], TokenFree)

\* C6, amended: when no value of the map contains a brace, a run of a
\* surviving slide whose braces pair up without nesting in the template
\* contains no token of the map, and reads the values where the tokens were.
C6_NoTokenSurvivesFlat ==
    (/\ pc = "returned"
     /\ \A n \in DOMAIN replacements :
            IsToken(replacements[n][1]) /\ BraceFree(replacements[n][2])) =>
        \A k \in DOMAIN output.slides :
            LET TokenFree(t0, t1) ==
                    Flat(t0) =>
                        /\ \A key \in Keys(replacements) : ~Contains(t1, key)
                        /\ t1 = InsertionOrderFold(t0, replacements)
            IN  AllRuns(Origin(k), output.slides[k], TokenFree)

\* "x{A}x{A}" of a surviving slide reads "xAcmexAcme"
C6_Witness ==
    /\ pc = "returned"
    /\ replacements = << <<TokA, <<"A", "c", "m", "e">>>>, <<TokB, <<"9", "%">>>> >>
    /\ \E k \in DOMAIN output.slides : \E s \in DOMAIN output.slides[k].shapes :
          /\ output.slides[k].shapes[s].has_text_frame
          /\ \E p \in DOMAIN output.slides[k].shapes[s].text_frame :
                /\ Origin(k).shapes[s].text_frame[p]
                       = << <<"x">> \o TokA \o <<"x">> \o TokA >>
                /\ output.slides[k].shapes[s].text_frame[p]
                       = << <<"x", "A", "c", "m", "e", "x", "A", "c", "m", "e">> >>

\* C8: a failed rendering step (generate_presentation has returned, the
\* answer is an error) is answered with another error label than the one a
\* failure of generate_presentation gets.
C8_ConversionFailureDistinct ==
    (/\ caller = "/render/pdf"
     /\ pc = "responded"
     /\ output.kind = "bytes"
     /\ response.status = 500) =>
        response.prefix # GeneralErrorPrefix

FoldFrame(tf, repl) ==
    [p \in DOMAIN tf |-> [r \in DOMAIN tf[p] |-> InsertionOrderFold(tf[p][r], repl)]]

FoldSlide(slide, repl) ==
    [shapes |-> [s \in DOMAIN slide.shapes |->
                    [has_text_frame |-> slide.shapes[s].has_text_frame,
                     text_frame |-> FoldFrame(slide.shapes[s].text_frame, repl)]],
     has_notes_slide |-> slide.has_notes_slide,
     has_notes_text_frame |-> slide.has_notes_text_frame,
     notes_text_frame |-> FoldFrame(slide.notes_text_frame, repl)]

\* select, remove, substitute: the slides without a disabled tag, in order,
\* every run of theirs folded
RECURSIVE WholePipeline(_, _, _)
WholePipeline(slides, repl, toggles) ==
    IF slides = <<>> THEN <<>>
    ELSE (IF HasDisabledTag(Head(slides), toggles)
          THEN <<>>
          ELSE <<FoldSlide(Head(slides), repl)>>)
             \o WholePipeline(Tail(slides), repl, toggles)

\* C9: there is an output only once the whole pipeline has run, and it is the
\* pipeline's result; when generate_presentation raises there is none, and
\* /render answers with an error and no document.
C9_NoPartialOutput ==
    /\ output.kind = "bytes" =>
          /\ pc \in {"returned", "read_pdf", "raised", "responded"}
          /\ output.slides = WholePipeline(template.slides, replacements, slide_toggles)
    /\ pc \in {"handler", "call", "select", "remove", "del", "subst"} => output = NoBytes
    /\ (pc = "raised" /\ exc \notin {"CalledProcessError", "FileNotFoundError"})
          => output = NoBytes
    /\ (caller = "/render" /\ pc = "responded") =>
          IF output.kind = "bytes"
          THEN response.status = 200 /\ response.body = output
          ELSE response.status = 500 /\ response.body = NoBytes

\* generate_presentation raised on the template and /render answered 500
C9_Witness ==
    /\ caller = "/render"
    /\ pc = "responded"
    /\ template_exists
    /\ response.status = 500
    /\ response.error = "PackageNotFoundError"
    /\ response.body = NoBytes

====
